---- MODULE Spec2Model ----
(***************************************************************************)
(* Model of rusti's execution engine (src/src/rusti/exec.rs):              *)
(* ExecutionEngine::new / get_sysroot, call_function_with_source, and the  *)
(* monitor / handle_compiler_panic pair; and of the module values of       *)
(* librustc_trans (src/librustc_trans/lib.rs): ModuleTranslation,          *)
(* ModuleSource, ModuleLlvm and its Drop, and                              *)
(* LlvmTransCrate::join_trans_and_link.                                    *)
(*                                                                         *)
(* External collaborators (the file system, the rustc child process, the   *)
(* dynamic loader, the code of a loaded artifact, the closure handed to    *)
(* monitor) are inputs: every action draws their answers with \E.          *)
(***************************************************************************)
EXTENDS Integers, Sequences, FiniteSets, TLC

\* ---------------------------------------------------------------- bounds
MaxOps == 3            \* calls the controller makes (evaluations and monitor runs)
MaxBuf == 2            \* chunks f() writes into the SyncBuf before it ends
MaxModules == 2        \* ModuleTranslation values that are created

\* ---------------------------------------------------------------- inputs
\* A source text is a sequence of items; an item that is a function
\* definition is written as the name it exports.
Bodies == { <<"hello">>, <<"get", "show">> }
Names  == { "hello", "show" }
NonUtf8Path == "<non-utf8>"
SuppliedSysroots == { "/opt/rust", NonUtf8Path }
LibSets == { <<>>, <<"deps">> }
\* stdout of `rustc --print sysroot`, byte by byte ("<FF>" is a byte that is
\* not valid UTF-8); a rustc that exits with an error prints nothing there
SysrootOutputs == { <<"/", "r", "\n">>, <<"/", "r", "\r", "\n">>, <<"/", "r">>,
                    <<"/", "<FF>", "\n">>, <<>> }

VARIABLES
    engine,       \* "unbuilt" | "ready" | "failed" : result of ExecutionEngine::new
    alive,        \* FALSE once the process has aborted
    lib_paths,    \* ExecutionEngine.lib_paths
    sysroot,      \* ExecutionEngine.sysroot
    counter,      \* ExecutionEngine.counter
    discoveries,  \* number of `rustc --print sysroot` child processes run
    files,        \* the working directory: path -> content
    opened,       \* number of Library::new calls that returned a handle
    loaded,       \* ids of the handles that are still loaded
    ops,          \* number of calls the controller has made so far
    last,         \* what the latest call_function_with_source did
    succ,         \* artifacts of the calls that returned true, in order
    probe,        \* how ExecutionEngine::new came by the sysroot
    tcx,          \* what the latest with_tcx did
    mon,          \* controller inside monitor: "idle" | "joining"
    worker,       \* "none" | "spawned" | "running" | "returned" | "panicked"
    sinkSet,      \* io::set_panic(sink) was done in the worker
    data,         \* the Vec<u8> behind the Arc<Mutex<..>>, in chunks
    payload,      \* what the worker panicked with
    ret,          \* what f() returned
    result,       \* what the latest monitor call gave back
    emitted,      \* "unexpected panic" diagnostics emitted by the latest call
    printed,      \* what the latest call printed to standard output
    counterAtSpawn, \* value of counter when the latest monitor call began
    threads,      \* number of worker threads that exist
    access,       \* the latest access to the buffer of the current monitor call
    modules,      \* the ModuleTranslation values that exist: id -> value
    created,      \* number of ModuleTranslation values created so far
    native,       \* LLVM's side: handle -> number of dispose calls made on it
    compiled,     \* the CompiledModule values produced: id -> value
    ffi,          \* the LLVM calls made by the latest step
    seen,         \* what the latest ModuleTranslation::llvm call gave
    jpc,          \* join_trans_and_link: the statement that runs next, or how it ended
    jsess,        \* join_trans_and_link: the arguments and the session options
    jstatus,      \* what sess.compile_status() answered
    jlog          \* the calls join_trans_and_link has made, in order

engineVars == <<engine, alive, lib_paths, sysroot, counter, discoveries,
                files, opened, loaded, ops, last, succ, probe, tcx>>

monVars == <<mon, worker, sinkSet, data, payload, ret, result, emitted,
             printed, counterAtSpawn, threads, access>>

transVars == <<modules, created, native, compiled, ffi, seen>>

linkVars == <<jpc, jsess, jstatus, jlog>>

vars == <<engineVars, monVars, transVars, linkVars>>

\* ------------------------------------------------------- pure functions
RECURSIVE Concat(_)
Concat(s) == IF s = <<>> THEN "" ELSE Head(s) \o Concat(Tail(s))

\* str::trim_right_matches(|c| c == '\r' || c == '\n')
RECURSIVE trim_right_matches(_)
trim_right_matches(s) ==
    IF s # <<>> /\ s[Len(s)] \in {"\r", "\n"}
    THEN trim_right_matches(SubSeq(s, 1, Len(s) - 1))
    ELSE s

\* variant: String::from_utf8_lossy, which accepts every byte string
from_utf8_ok_lossy(bytes) == TRUE

\* std::str::from_utf8(..).ok()
from_utf8_ok(bytes) == \A i \in DOMAIN bytes : bytes[i] # "<FF>"

\* Path::to_str(): None for a path that is not valid UTF-8
to_str_ok(p) == p # NonUtf8Path

\* variant: one output path for every generation
dylib_file_fixed(n) == "./rusti_tmp_source.dylib"

\* format!("./rusti_tmp_source_{}.dylib", self.counter)
dylib_file(n) == "./rusti_tmp_source_" \o ToString(n) \o ".dylib"

SourceFile == "rusti_tmp_source.rs"

\* variant: a generated line is written ahead of the source
WrittenText_prelude(source) == <<"#![allow(unused)]">> \o source \o <<"\n">>

\* writeln!(file, "{}", source) into a freshly truncated file
WrittenText(source) == source \o <<"\n">>

\* variant: the argument vector also declares a dependency
RustcArgs_extern(sr, out) ==
    << "-L", ".", "--sysroot", sr, "--crate-type", "dylib",
       "--extern", "rusti_tmp_source_0=./rusti_tmp_source_0.dylib",
       SourceFile, "-o", out >>

\* the argument vector of the rustc child process
RustcArgs(sr, out) ==
    << "-L", ".", "--sysroot", sr, "--crate-type", "dylib", SourceFile, "-o", out >>

\* the symbols an artifact compiled from `text` exports
Exports(text) == { text[i] : i \in DOMAIN text } \ {"\n"}

Put(f, k, v) == [x \in DOMAIN f \cup {k} |-> IF x = k THEN v ELSE f[x]]
Del(f, k)    == [x \in DOMAIN f \ {k} |-> f[x]]

NoProbe == [how |-> "none", given |-> "", launched |-> FALSE, out |-> <<>>]

NoTcx == [outcome |-> "none", step |-> "none", args |-> <<>>, fruns |-> 0,
          slot |-> "None", value |-> "none"]

NoAccess == [by |-> "none", locked |-> FALSE, worker |-> "none"]

NoSess == [boxed |-> "none", incremental_info |-> FALSE, output_types |-> {}]

NoSeen == [id |-> 0, some |-> FALSE, live |-> TRUE]

NoCall == [outcome |-> "none", step |-> "none", gen |-> 0, out |-> "",
           args |-> <<>>, source |-> <<>>, handle |-> 0]

\* ------------------------------------------------------------------ Init
StaleGens == {0}
Init ==
    /\ engine = "unbuilt"
    /\ alive = TRUE
    /\ lib_paths = <<>>
    /\ sysroot = ""
    /\ counter = 0
    /\ discoveries = 0
    \* artifacts of an earlier session may still lie in the directory
    /\ \E stale \in SUBSET StaleGens :
          files = [p \in { dylib_file(n) : n \in stale } |-> [kind |-> "stale"]]
    /\ opened = 0
    /\ loaded = {}
    /\ ops = 0
    /\ last = NoCall
    /\ succ = <<>>
    /\ probe = NoProbe
    /\ tcx = NoTcx
    /\ mon = "idle"
    /\ worker = "none"
    /\ sinkSet = FALSE
    /\ data = <<>>
    /\ payload = "none"
    /\ ret = "none"
    /\ result = [kind |-> "none"]
    /\ emitted = 0
    /\ printed = <<>>
    /\ counterAtSpawn = 0
    /\ threads = 0
    /\ access = NoAccess
    /\ modules = <<>>
    /\ created = 0
    /\ native = <<>>
    /\ compiled = <<>>
    /\ ffi = <<>>
    /\ seen = NoSeen
    /\ jpc = "start"
    /\ jsess = NoSess
    /\ jstatus = "none"
    /\ jlog = <<>>

\* ------------------------------------------------ ExecutionEngine::new
\* variant: sysroot.unwrap_or(get_sysroot()) : the default is computed always
child_runs_eager(supplied) == 1

\* sysroot.unwrap_or_else(get_sysroot): the rustc children that new starts
child_runs(supplied) == IF supplied THEN 0 ELSE 1

\* sysroot supplied: no discovery.
NewWithSysroot ==
    /\ alive /\ engine = "unbuilt" /\ mon = "idle"
    /\ \E libs \in LibSets, sr \in SuppliedSysroots :
          /\ lib_paths' = libs
          /\ sysroot' = sr
          /\ probe' = [how |-> "supplied", given |-> sr, launched |-> FALSE, out |-> <<>>]
    /\ engine' = "ready"
    /\ counter' = 0
    /\ discoveries' = discoveries + child_runs(TRUE)
    /\ UNCHANGED <<alive, files, opened, loaded, ops, last, succ, tcx>>
    /\ UNCHANGED monVars
    /\ UNCHANGED <<transVars, linkVars>>

\* sysroot not supplied: get_sysroot runs rustc once; a launch failure or an
\* output that is not UTF-8 panics and no engine is produced.
NewDiscover ==
    /\ alive /\ engine = "unbuilt" /\ mon = "idle"
    /\ \E libs \in LibSets, launched \in BOOLEAN, out \in SysrootOutputs :
          IF ~launched
          THEN /\ engine' = "failed"
               /\ probe' = [how |-> "discovered", given |-> "", launched |-> FALSE,
                            out |-> <<>>]
               /\ UNCHANGED <<lib_paths, sysroot, discoveries>>
          ELSE /\ discoveries' = discoveries + child_runs(FALSE)
               /\ probe' = [how |-> "discovered", given |-> "", launched |-> TRUE,
                            out |-> out]
               /\ IF from_utf8_ok(out)
                  THEN /\ engine' = "ready"
                       /\ lib_paths' = libs
                       /\ sysroot' = Concat(trim_right_matches(out))
                  ELSE /\ engine' = "failed"
                       /\ UNCHANGED <<lib_paths, sysroot>>
    /\ counter' = 0
    /\ UNCHANGED <<alive, files, opened, loaded, ops, last, succ, tcx>>
    /\ UNCHANGED monVars
    /\ UNCHANGED <<transVars, linkVars>>

\* ------------------------------- ExecutionEngine::call_function_with_source
AllEnvs == [ remove : BOOLEAN,           \* remove_file succeeded
             open   : BOOLEAN,           \* OpenOptions::open succeeded
             write  : BOOLEAN,           \* writeln! succeeded
             launch : BOOLEAN,           \* Command::status() is Ok
             rustc  : BOOLEAN,           \* exit status is success
             load   : BOOLEAN,           \* Library::new is Ok
             entry  : {"returns", "unwinds", "aborts"} ]  \* what func() does
\* An answer that is never asked for (because an earlier step failed) is
\* fixed, so that each course of the call is drawn once.
Envs == { e \in AllEnvs :
            /\ ~e.open   => e.write
            /\ ~(e.open /\ e.write) => e.launch
            /\ ~(e.open /\ e.write /\ e.launch) => e.rustc
            /\ ~(e.open /\ e.write /\ e.launch /\ e.rustc) => e.load
            /\ ~(e.open /\ e.write /\ e.launch /\ e.rustc /\ e.load)
                  => e.entry = "returns" }

\* variant: the increment is done before the compiler's status is looked at
counter_after_always(c, outcome) == c + 1

\* variant: the increment is skipped only when the call unwinds
counter_after_unless_panic(c, outcome) ==
    IF outcome \in {"true", "false"} THEN c + 1 ELSE c

\* self.counter += 1 is reached only by the call that returns true
counter_after(c, outcome) == IF outcome = "true" THEN c + 1 ELSE c

\* `lib` is forgotten (stays loaded) only when func() has returned; when the
\* call unwinds past it, the local is dropped and the library is unloaded.
\* A process that aborts inside func() unloads nothing.
loaded_after(ld, h, outcome) ==
    IF outcome \in {"true", "abort"} THEN ld \cup {h} ELSE ld

\* The whole call, as a function of the engine state and the inputs.
\* Result: the new values of files, opened and alive, and the record of the
\* call (how it ended, at which step, with which arguments).
CallResult(source, name, env) ==
    LET out   == dylib_file(counter)
        f1    == IF env.remove /\ out \in DOMAIN files THEN Del(files, out) ELSE files
        f2    == Put(f1, SourceFile, [kind |-> "source", text |-> <<>>])
        f3    == Put(f1, SourceFile, [kind |-> "source", text |-> WrittenText(source)])
        args  == RustcArgs(sysroot, out)
        f4    == Put(f3, out, [kind |-> "dylib", text |-> WrittenText(source), gen |-> counter])
        h     == opened + 1
        base  == [files |-> f1, opened |-> opened, alive |-> TRUE,
                  call |-> [outcome |-> "panic", step |-> "open", gen |-> counter,
                            out |-> out, args |-> <<>>, source |-> source,
                            handle |-> 0]]
        St(r, o, s) == [r EXCEPT !.call.outcome = o, !.call.step = s]
    IN
    IF ~env.open THEN base
    ELSE IF ~env.write THEN St([base EXCEPT !.files = f2], "panic", "write")
    ELSE IF ~to_str_ok(sysroot) THEN St([base EXCEPT !.files = f3], "panic", "sysroot")
    ELSE LET b3 == [base EXCEPT !.files = f3, !.call.args = args] IN
    IF ~env.launch THEN St(b3, "panic", "launch")
    ELSE IF ~env.rustc THEN St(b3, "false", "reject")
    ELSE LET b4 == [b3 EXCEPT !.files = f4] IN
    IF ~env.load THEN St(b4, "panic", "load")
    ELSE LET b5 == [b4 EXCEPT !.opened = h, !.call.handle = h] IN
    \* from here on `lib` is a live local: an unwind drops it, which unloads
    IF name \notin Exports(f4[out].text) THEN St(b5, "panic", "symbol")
    ELSE IF env.entry = "unwinds" THEN St(b5, "panic", "fault")
    ELSE IF env.entry = "aborts"
         THEN St([b5 EXCEPT !.alive = FALSE], "abort", "fault")
    ELSE \* mem::forget(lib); self.counter += 1; true
         St(b5, "true", "ok")

call_function_with_source ==
    /\ alive /\ engine = "ready" /\ mon = "idle"
    /\ ops < MaxOps
    /\ \E source \in Bodies, name \in Names, env \in Envs :
          LET r == CallResult(source, name, env) IN
          /\ files' = r.files
          /\ opened' = r.opened
          /\ loaded' = IF r.call.handle = 0 THEN loaded
                       ELSE loaded_after(loaded, r.call.handle, r.call.outcome)
          /\ counter' = counter_after(counter, r.call.outcome)
          /\ alive' = r.alive
          /\ last' = r.call
          /\ succ' = IF r.call.outcome = "true" THEN Append(succ, r.call.out) ELSE succ
    /\ ops' = ops + 1
    /\ UNCHANGED <<engine, lib_paths, sysroot, discoveries, probe, tcx>>
    /\ UNCHANGED monVars
    /\ UNCHANGED <<transVars, linkVars>>

\* ------------------------------------------- ExecutionEngine::with_tcx
TcxValues == { "ty" }                     \* values f may return
TcxEnvs == [ driver : {"analysed", "error"},
             f      : {"returns", "panics"} ]

\* variant: the sysroot option is left out
TcxArgs_no_sysroot(sr) ==
    << "rustc", "dummy_name", "--crate-type", "lib" >>

\* the argument vector handed to rustc_driver::run_compiler
TcxArgs(sr) ==
    << "rustc", "dummy_name", "--crate-type", "lib", "--sysroot", sr >>

\* variant: compilation goes on after the callback
after_analysis_stop_continue == "Continue"

\* controller.after_analysis.stop = Compilation::Stop
after_analysis_stop == "Stop"

\* what run_compiler would leave on disk if it went on to code generation
TcxOutput == "libdummy_name.rlib"

\* The whole call. The driver either gets to the end of analysis and runs the
\* callback (once), or ends with an error before it. Result: the record of
\* the call and whether an output was written.
TcxResult(v, env) ==
    LET base == [outcome |-> "panic", step |-> "sysroot", args |-> <<>>,
                 fruns |-> 0, slot |-> "None", value |-> "none"]
        b1   == [base EXCEPT !.args = TcxArgs(sysroot)]
    IN
    IF ~to_str_ok(sysroot) THEN [call |-> base, wrote |-> FALSE]
    ELSE IF env.driver = "error"
         \* the slot is still None: cb.1.borrow_mut().take().unwrap() panics
         THEN [call |-> [b1 EXCEPT !.step = "slot"], wrote |-> FALSE]
    ELSE IF env.f = "panics"
         THEN [call |-> [b1 EXCEPT !.step = "f", !.fruns = 1], wrote |-> FALSE]
    ELSE \* *res.borrow_mut() = Some(f(tcx)); ...; take().unwrap()
         [call |-> [b1 EXCEPT !.outcome = "returned", !.step = "ok", !.fruns = 1,
                              !.slot = "taken", !.value = v],
          wrote |-> after_analysis_stop # "Stop"]

with_tcx ==
    /\ alive /\ engine = "ready" /\ mon = "idle"
    /\ ops < MaxOps
    /\ \E prog \in Bodies, v \in TcxValues, env \in TcxEnvs :
          LET r == TcxResult(v, env) IN
          /\ tcx' = r.call
          /\ files' = IF r.wrote
                      THEN Put(files, TcxOutput, [kind |-> "rlib", text |-> prog])
                      ELSE files
    /\ ops' = ops + 1
    /\ UNCHANGED <<engine, alive, lib_paths, sysroot, counter, discoveries,
                   opened, loaded, last, succ, probe>>
    /\ UNCHANGED monVars
    /\ UNCHANGED <<transVars, linkVars>>

\* ----------------------------------------------------------------- monitor
Results  == { "ok", "failed" }            \* values f() may return
Payloads == { "FatalError", "ExplicitBug", "Other" }
PanicMsg == "panic message"

\* variant: the diagnostic is never synthesized
handle_compiler_panic_silent(e, d) ==
    IF e # "FatalError"
    THEN [ emitted |-> 0, printed |-> d, read |-> TRUE, locked |-> TRUE ]
    ELSE [ emitted |-> 0, printed |-> <<>>, read |-> FALSE, locked |-> FALSE ]

\* variant: the inner test on ExplicitBug is missing
handle_compiler_panic_noisy(e, d) ==
    IF e # "FatalError"
    THEN [ emitted |-> 1, printed |-> d, read |-> TRUE, locked |-> TRUE ]
    ELSE [ emitted |-> 0, printed |-> <<>>, read |-> FALSE, locked |-> FALSE ]

\* variant: the print sits inside the inner test
handle_compiler_panic_print_inner(e, d) ==
    IF e # "FatalError"
    THEN [ emitted |-> IF e # "ExplicitBug" THEN 1 ELSE 0,
           printed |-> IF e # "ExplicitBug" THEN d ELSE <<>>,
           read |-> e # "ExplicitBug", locked |-> e # "ExplicitBug" ]
    ELSE [ emitted |-> 0, printed |-> <<>>, read |-> FALSE, locked |-> FALSE ]

\* variant: the buffer is read without taking the lock
handle_compiler_panic_unlocked(e, d) ==
    IF e # "FatalError"
    THEN [ emitted |-> IF e # "ExplicitBug" THEN 1 ELSE 0,
           printed |-> d, read |-> TRUE, locked |-> FALSE ]
    ELSE [ emitted |-> 0, printed |-> <<>>, read |-> FALSE, locked |-> FALSE ]

\* handle_compiler_panic(e, data): the diagnostics it emits, what it prints,
\* and whether it reads the buffer (data.lock().unwrap(), under the lock)
handle_compiler_panic(e, d) ==
    IF e # "FatalError"
    THEN [ emitted |-> IF e # "ExplicitBug" THEN 1 ELSE 0,
           printed |-> d, read |-> TRUE, locked |-> TRUE ]
    ELSE [ emitted |-> 0, printed |-> <<>>, read |-> FALSE, locked |-> FALSE ]

\* SyncBuf::write: self.0.lock().unwrap().write(buf)
sync_write(d, buf) == [ data |-> Append(d, buf), locked |-> TRUE ]

\* variant: the buffer is printed when the worker returned, too
JoinResult_print_ok(w, r, e, d) ==
    IF w = "returned"
    THEN [ result |-> [kind |-> "Some", val |-> r], emitted |-> 0, printed |-> d,
           read |-> TRUE, locked |-> TRUE ]
    ELSE [ result |-> [kind |-> "None"],
           emitted |-> handle_compiler_panic(e, d).emitted,
           printed |-> handle_compiler_panic(e, d).printed,
           read |-> handle_compiler_panic(e, d).read,
           locked |-> handle_compiler_panic(e, d).locked ]

\* variant: whatever the worker did, monitor answers None
JoinResult_always_none(w, r, e, d) ==
    [ result |-> [kind |-> "None"],
      emitted |-> IF w = "returned" THEN 0 ELSE handle_compiler_panic(e, d).emitted,
      printed |-> IF w = "returned" THEN <<>> ELSE handle_compiler_panic(e, d).printed,
      read |-> IF w = "returned" THEN FALSE ELSE handle_compiler_panic(e, d).read,
      locked |-> IF w = "returned" THEN FALSE ELSE handle_compiler_panic(e, d).locked ]

\* match handle.join() { Ok(r) => Some(r), Err(e) => { ..; None } }
JoinResult(w, r, e, d) ==
    IF w = "returned"
    THEN [ result |-> [kind |-> "Some", val |-> r], emitted |-> 0, printed |-> <<>>,
           read |-> FALSE, locked |-> FALSE ]
    ELSE [ result |-> [kind |-> "None"],
           emitted |-> handle_compiler_panic(e, d).emitted,
           printed |-> handle_compiler_panic(e, d).printed,
           read |-> handle_compiler_panic(e, d).read,
           locked |-> handle_compiler_panic(e, d).locked ]

\* monitor is entered: the buffer is created and the thread is spawned; the
\* controller goes on to handle.join()
MonitorSpawn ==
    /\ alive /\ mon = "idle" /\ ops < MaxOps
    /\ mon' = "joining"
    /\ worker' = "spawned"
    /\ sinkSet' = FALSE
    /\ data' = <<>>
    /\ payload' = "none"
    /\ ret' = "none"
    /\ result' = [kind |-> "none"]
    /\ emitted' = 0
    /\ printed' = <<>>
    /\ ops' = ops + 1
    /\ counterAtSpawn' = counter
    /\ threads' = threads + 1
    /\ access' = NoAccess
    /\ UNCHANGED <<engine, alive, lib_paths, sysroot, counter, discoveries,
                   files, opened, loaded, last, succ, probe, tcx>>
    /\ UNCHANGED <<transVars, linkVars>>

\* thread.spawn(..).unwrap() when the thread cannot be created
MonitorSpawnFails ==
    /\ alive /\ mon = "idle" /\ ops < MaxOps
    /\ worker' = "none"
    /\ sinkSet' = FALSE
    /\ data' = <<>>
    /\ payload' = "none"
    /\ ret' = "none"
    /\ result' = [kind |-> "panic"]
    /\ emitted' = 0
    /\ printed' = <<>>
    /\ ops' = ops + 1
    /\ counterAtSpawn' = counter
    /\ access' = NoAccess
    /\ UNCHANGED <<mon, threads>>
    /\ UNCHANGED <<engine, alive, lib_paths, sysroot, counter, discoveries,
                   files, opened, loaded, last, succ, probe, tcx>>
    /\ UNCHANGED <<transVars, linkVars>>

\* worker: if !log_enabled!(Debug) { io::set_panic(Some(Box::new(sink))) }
WorkerStart ==
    /\ alive /\ worker = "spawned"
    /\ \E log_enabled \in BOOLEAN : sinkSet' = ~log_enabled
    /\ worker' = "running"
    /\ UNCHANGED <<mon, data, payload, ret, result, emitted, printed,
                   counterAtSpawn, threads, access>>
    /\ UNCHANGED engineVars
    /\ UNCHANGED <<transVars, linkVars>>

\* f() reports a panic it goes on to catch: the message lands in the sink
WorkerWrite ==
    /\ alive /\ worker = "running" /\ sinkSet
    /\ Len(data) < MaxBuf
    /\ data' = sync_write(data, PanicMsg).data
    /\ access' = [by |-> "worker", locked |-> sync_write(data, PanicMsg).locked,
                  worker |-> worker]
    /\ UNCHANGED <<mon, worker, sinkSet, payload, ret, result, emitted, printed,
                   counterAtSpawn, threads>>
    /\ UNCHANGED engineVars
    /\ UNCHANGED <<transVars, linkVars>>

\* f() returns r
WorkerReturn ==
    /\ alive /\ worker = "running"
    /\ \E r \in Results : ret' = r
    /\ worker' = "returned"
    /\ UNCHANGED <<mon, sinkSet, data, payload, result, emitted, printed,
                   counterAtSpawn, threads, access>>
    /\ UNCHANGED engineVars
    /\ UNCHANGED <<transVars, linkVars>>

\* f() panics with payload e; the panic hook (when it runs: resume_unwind
\* skips it) writes its message to the sink if one is set
WorkerPanic ==
    /\ alive /\ worker = "running"
    /\ \E e \in Payloads, hook \in BOOLEAN :
          /\ payload' = e
          /\ IF hook /\ sinkSet
             THEN /\ data' = sync_write(data, PanicMsg).data
                  /\ access' = [by |-> "worker",
                                locked |-> sync_write(data, PanicMsg).locked,
                                worker |-> worker]
             ELSE UNCHANGED <<data, access>>
    /\ worker' = "panicked"
    /\ UNCHANGED <<mon, sinkSet, ret, result, emitted, printed,
                   counterAtSpawn, threads>>
    /\ UNCHANGED engineVars
    /\ UNCHANGED <<transVars, linkVars>>

\* variant: the controller does not wait for the worker (the handle is
\* dropped instead of joined) and takes whatever is there
MonitorJoin_nowait ==
    /\ alive /\ mon = "joining"
    /\ LET j == JoinResult(worker, ret, payload, data) IN
          /\ result' = j.result
          /\ emitted' = j.emitted
          /\ printed' = j.printed
          /\ access' = IF j.read
                       THEN [by |-> "controller", locked |-> j.locked, worker |-> worker]
                       ELSE access
    /\ mon' = "idle"
    /\ IF worker \in {"returned", "panicked"}
       THEN worker' = "none" /\ threads' = threads - 1
       ELSE UNCHANGED <<worker, threads>>
    /\ sinkSet' = FALSE
    /\ UNCHANGED <<data, payload, ret, counterAtSpawn>>
    /\ UNCHANGED engineVars
    /\ UNCHANGED <<transVars, linkVars>>

\* handle.join() returns and monitor finishes
MonitorJoin ==
    /\ alive /\ mon = "joining" /\ worker \in {"returned", "panicked"}
    /\ LET j == JoinResult(worker, ret, payload, data) IN
          /\ result' = j.result
          /\ emitted' = j.emitted
          /\ printed' = j.printed
          /\ access' = IF j.read
                       THEN [by |-> "controller", locked |-> j.locked, worker |-> worker]
                       ELSE access
    /\ mon' = "idle"
    /\ worker' = "none"
    /\ threads' = threads - 1    \* join returns when the thread has ended
    /\ sinkSet' = FALSE          \* the sink was local to the thread that ended
    /\ UNCHANGED <<data, payload, ret, counterAtSpawn>>
    /\ UNCHANGED engineVars
    /\ UNCHANGED <<transVars, linkVars>>

Next ==
    \/ NewWithSysroot
    \/ NewDiscover
    \/ call_function_with_source
    \/ with_tcx
    \/ MonitorSpawn
    \/ MonitorSpawnFails
    \/ WorkerStart
    \/ WorkerWrite
    \/ WorkerReturn
    \/ WorkerPanic
    \/ MonitorJoin

Spec == Init /\ [][Next]_vars

\* ------------------------------------ librustc_trans: ModuleTranslation
ModuleKinds == { "Regular", "Metadata", "Allocator" }
\* (emit_obj, emit_bc, emit_bc_compressed)
EmitFlags == { <<FALSE, FALSE, FALSE>>, <<TRUE, FALSE, FALSE>>, <<TRUE, TRUE, TRUE>> }

\* struct ModuleLlvm { llcx, llmod, tm }: module i owns three handles
ModuleLlvm(i) == [llcx |-> <<i, "llcx">>, llmod |-> <<i, "llmod">>, tm |-> <<i, "tm">>]

\* enum ModuleSource
Preexisting(wp) == [tag |-> "Preexisting", wp |-> wp]
Translated(m)   == [tag |-> "Translated", llvm |-> m]

\* variant: the target machine is left alone
drop_ModuleLlvm_no_tm(m) ==
    << <<"LLVMDisposeModule", m.llmod>>, <<"LLVMContextDispose", m.llcx>> >>

\* impl Drop for ModuleLlvm: the calls into LLVM, in order
drop_ModuleLlvm(m) ==
    << <<"LLVMDisposeModule", m.llmod>>, <<"LLVMContextDispose", m.llcx>>,
       <<"LLVMRustDisposeTargetMachine", m.tm>> >>

\* dropping a ModuleSource drops what its variant holds; a WorkProduct owns
\* no handle
drop_ModuleSource(src) ==
    IF src.tag = "Translated" THEN drop_ModuleLlvm(src.llvm) ELSE <<>>

\* LLVM's side of the dispose calls: each one counts against its handle
RECURSIVE Dispose(_, _)
Dispose(nat, calls) ==
    IF calls = <<>> THEN nat
    ELSE Dispose([nat EXCEPT ![Head(calls)[2]] = @ + 1], Tail(calls))

\* ModuleTranslation::llvm(&self) -> Option<&ModuleLlvm>
llvm(m) ==
    IF m.source.tag = "Translated"
    THEN [some |-> TRUE, llvm |-> m.source.llvm]
    ELSE [some |-> FALSE]

\* the CompiledModule that into_compiled_module builds
CompiledModule(m, emit) ==
    [ llmod_id     |-> m.llmod_id,
      name         |-> m.name,
      kind         |-> m.kind,
      pre_existing |-> (m.source.tag = "Preexisting"),
      object       |-> IF emit[1] THEN <<"Object", m.name>> ELSE "None",
      bytecode     |-> IF emit[2] THEN <<"Bitcode", m.name>> ELSE "None",
      bytecode_compressed |->
                       IF emit[3] THEN <<"Bitcode", m.name, "compressed">> ELSE "None" ]

\* a ModuleTranslation is built, from a fresh ModuleLlvm or from a work product
NewModule ==
    /\ created < MaxModules
    /\ \E kind \in ModuleKinds, translated \in BOOLEAN :
          LET i   == created + 1
              ml  == ModuleLlvm(i)
              src == IF translated THEN Translated(ml) ELSE Preexisting(i)
              hs  == IF translated THEN {ml.llcx, ml.llmod, ml.tm} ELSE {}
          IN  /\ modules' = Put(modules, i, [name |-> i, llmod_id |-> i,
                                             source |-> src, kind |-> kind])
              /\ native' = [h \in DOMAIN native \cup hs |->
                               IF h \in DOMAIN native THEN native[h] ELSE 0]
    /\ created' = created + 1
    /\ ffi' = <<>>
    /\ UNCHANGED <<compiled, seen>>
    /\ UNCHANGED <<engineVars, monVars, linkVars>>

\* m.llvm() on a module that exists, and a look at the handles it gives
ModuleTranslation_llvm ==
    /\ \E i \in DOMAIN modules :
          LET r == llvm(modules[i]) IN
          seen' = [id |-> i, some |-> r.some,
                   live |-> r.some =>
                              \A h \in {r.llvm.llcx, r.llvm.llmod, r.llvm.tm} :
                                  h \in DOMAIN native /\ native[h] = 0]
    /\ ffi' = <<>>
    /\ UNCHANGED <<modules, created, native, compiled>>
    /\ UNCHANGED <<engineVars, monVars, linkVars>>

\* m.into_compiled_module(..): self is consumed; llmod_id, name and kind go
\* into the CompiledModule, and self.source is dropped at the end of the call
into_compiled_module ==
    /\ \E i \in DOMAIN modules, emit \in EmitFlags :
          LET m     == modules[i]
              calls == drop_ModuleSource(m.source)
          IN  /\ compiled' = Put(compiled, i, CompiledModule(m, emit))
              /\ modules' = Del(modules, i)
              /\ ffi' = calls
              /\ native' = Dispose(native, calls)
    /\ UNCHANGED <<created, seen>>
    /\ UNCHANGED <<engineVars, monVars, linkVars>>

\* a ModuleTranslation goes out of scope without having been compiled
DropModule ==
    /\ \E i \in DOMAIN modules :
          LET calls == drop_ModuleSource(modules[i].source)
          IN  /\ modules' = Del(modules, i)
              /\ ffi' = calls
              /\ native' = Dispose(native, calls)
    /\ UNCHANGED <<created, compiled, seen>>
    /\ UNCHANGED <<engineVars, monVars, linkVars>>

TransNext ==
    \/ NewModule
    \/ ModuleTranslation_llvm
    \/ into_compiled_module
    \/ DropModule

TransSpec == Init /\ [][TransNext]_vars

\* ------------------------- LlvmTransCrate::join_trans_and_link
\* what the Box<Any> handed in holds
Boxed == { "OngoingCrateTranslation", "Other" }
OutputTypes == { "Exe", "Metadata", "Object" }
\* a call into another crate or module returns or unwinds (a fatal error)
Callee == { "returns", "unwinds" }
CompileStatus == { "Ok", "Err" }

\* variant: the compile status is looked at and then ignored
after_status_ignored(st) == "types"

\* sess.compile_status()? : an Err leaves the function at once
after_status(st) == IF st = "Err" THEN "Err" ELSE "types"

\* sess.opts.output_types.keys().any(|&i| i == Exe || i == Metadata)
any_exe_or_metadata(types) == types \cap {"Exe", "Metadata"} # {}

\* a call is made: it is logged, and the function goes on or unwinds
CallThen(name, r, next) ==
    /\ jlog' = Append(jlog, name)
    /\ jpc' = IF r = "returns" THEN next ELSE "panicked"

JtlEnter ==
    /\ jpc = "start"
    /\ \E b \in Boxed, info \in BOOLEAN, types \in SUBSET OutputTypes :
          jsess' = [boxed |-> b, incremental_info |-> info, output_types |-> types]
    /\ jpc' = "join"
    /\ UNCHANGED <<jstatus, jlog>>
    /\ UNCHANGED <<engineVars, monVars, transVars>>

\* trans.downcast::<OngoingCrateTranslation>().expect(..).join(sess, dep_graph)
JtlJoin ==
    /\ jpc = "join"
    /\ IF jsess.boxed # "OngoingCrateTranslation"
       THEN jpc' = "panicked" /\ UNCHANGED jlog
       ELSE \E r \in Callee : CallThen("join", r, "dump")
    /\ UNCHANGED <<jsess, jstatus>>
    /\ UNCHANGED <<engineVars, monVars, transVars>>

\* if sess.opts.debugging_opts.incremental_info { dump_incremental_data(&trans) }
JtlDump ==
    /\ jpc = "dump"
    /\ IF jsess.incremental_info
       THEN \E r \in Callee : CallThen("dump_incremental_data", r, "save")
       ELSE jpc' = "save" /\ UNCHANGED jlog
    /\ UNCHANGED <<jsess, jstatus>>
    /\ UNCHANGED <<engineVars, monVars, transVars>>

\* time(.., "serialize work products", || save_work_products(sess, &dep_graph))
JtlSave ==
    /\ jpc = "save"
    /\ \E r \in Callee : CallThen("save_work_products", r, "status")
    /\ UNCHANGED <<jsess, jstatus>>
    /\ UNCHANGED <<engineVars, monVars, transVars>>

\* sess.compile_status()?
JtlStatus ==
    /\ jpc = "status"
    /\ \E st \in CompileStatus :
          /\ jstatus' = st
          /\ jlog' = Append(jlog, "compile_status")
          /\ jpc' = after_status(st)
    /\ UNCHANGED jsess
    /\ UNCHANGED <<engineVars, monVars, transVars>>

\* if !output_types.keys().any(..) { return Ok(()) }
JtlTypes ==
    /\ jpc = "types"
    /\ jpc' = IF any_exe_or_metadata(jsess.output_types) THEN "link" ELSE "Ok"
    /\ UNCHANGED <<jsess, jstatus, jlog>>
    /\ UNCHANGED <<engineVars, monVars, transVars>>

\* time(.., "linking", || link_binary(sess, &trans, outputs, ..))
JtlLink ==
    /\ jpc = "link"
    /\ \E r \in Callee : CallThen("link_binary", r, "finalize")
    /\ UNCHANGED <<jsess, jstatus>>
    /\ UNCHANGED <<engineVars, monVars, transVars>>

\* finalize_session_directory(sess, trans.link.crate_hash); Ok(())
JtlFinalize ==
    /\ jpc = "finalize"
    /\ \E r \in Callee : CallThen("finalize_session_directory", r, "Ok")
    /\ UNCHANGED <<jsess, jstatus>>
    /\ UNCHANGED <<engineVars, monVars, transVars>>

LinkNext ==
    \/ JtlEnter
    \/ JtlJoin
    \/ JtlDump
    \/ JtlSave
    \/ JtlStatus
    \/ JtlTypes
    \/ JtlLink
    \/ JtlFinalize

LinkSpec == Init /\ [][LinkNext]_vars

\* ================================================================ claims
Failed == {"false", "panic", "abort"}

\* C1: after any sequence of calls of which exactly k returned true, the
\* counter is k, the i-th of them (from 0) compiled and loaded the artifact
\* named from i, and no two of them share a generation.
C1_ChainMatchesSuccesses ==
    /\ counter = Len(succ)
    /\ \A i \in 1 .. Len(succ) : succ[i] = dylib_file(i - 1)
    /\ \A i, j \in 1 .. Len(succ) : i # j => succ[i] # succ[j]

C1_Witness == Len(succ) = 2 /\ last.outcome = "true"

\* C2: a call that fails when the counter is i (compiler rejects, artifact
\* does not load, symbol missing, entry point faults) leaves the counter at
\* i, and a successful call that comes next is given generation i.
\* (stated of every step: only call_function_with_source changes `last` or
\* the counter)
C2_FailedSlotRetried ==
    [][   /\ (last'.outcome \in Failed =>
                counter' = counter /\ last'.gen = counter')
          /\ (last.outcome \in Failed /\ last'.outcome = "true" =>
                /\ last'.gen = last.gen
                /\ last'.out = dylib_file(last.gen)
                /\ counter' = last.gen + 1) ]_vars

\* three evaluations and no monitor run, two successes, the latest one a
\* success: one of the two successes came right after the failure
C2_Witness ==
    /\ ops = 3 /\ mon = "idle" /\ result.kind = "none"
    /\ last.outcome = "true" /\ Len(succ) = 2

\* C3 (as claimed): every per-evaluation error is contained: the call comes
\* back to the controller with a boolean and never unwinds into it.
C3_ErrorsContained == last.outcome \in {"none", "true", "false"}

\* C4 (as claimed): the compiler's argument list for an evaluation at
\* generation i holds exactly i --extern entries.
ExternIdx(args) == { k \in DOMAIN args : args[k] = "--extern" }

C4_ExternPerPriorGeneration ==
    last.args # <<>> => Cardinality(ExternIdx(last.args)) = last.gen

\* C4 (amended): the compiler's argument list holds no --extern entry at any
\* generation; the generation shows only in the output path, which is the
\* last argument, after -o.
C4_NoExternArgs ==
    last.args # <<>> =>
        /\ ExternIdx(last.args) = {}
        /\ last.args[Len(last.args) - 1] = "-o"
        /\ last.args[Len(last.args)] = dylib_file(last.gen)

C4_Witness == last.args # <<>> /\ last.gen = 1

\* C5 (as claimed): the unit written for generation i is a prelude followed
\* by the body; the prelude imports generation i-1 when i > 0 and nothing
\* when i = 0.
ImportOf(j) == "use rusti_tmp_source_" \o ToString(j) \o "::*;"
ImportsIn(text) == { j \in 0 .. MaxOps : \E k \in DOMAIN text : text[k] = ImportOf(j) }
Written == last.step \notin {"none", "open", "write"}
UnitText == files[SourceFile].text
\* what stands in the unit ahead of the body and its line end
PreludeOf(text, body) == SubSeq(text, 1, Len(text) - Len(body) - 1)

C5_PreludeImportsPrevious ==
    Written =>
        /\ UnitText = PreludeOf(UnitText, last.source) \o last.source \o <<"\n">>
        /\ ImportsIn(PreludeOf(UnitText, last.source)) =
              IF last.gen > 0 THEN {last.gen - 1} ELSE {}

\* C5 (amended): the unit written for generation i is the body, verbatim,
\* and a line end: there is no prelude, and no generation is imported for
\* any i.
C5_VerbatimNoPrelude ==
    Written =>
        /\ UnitText = last.source \o <<"\n">>
        /\ PreludeOf(UnitText, last.source) = <<>>

C5_Witness == Written /\ last.gen = 1

\* C6: a worker that ends with a payload that is neither FatalError nor
\* ExplicitBug: exactly one "unexpected panic" diagnostic is emitted, monitor
\* returns None and the controller is free for the next call.
\* (payload is reset when monitor is entered, so a payload with no worker
\* left is that of the run that was joined last)
Joined == worker = "none"

C6_UnrecognizedFault ==
    (Joined /\ payload = "Other") =>
        /\ emitted = 1
        /\ result = [kind |-> "None"]
        /\ mon = "idle"

C6_Witness == Joined /\ payload = "Other" /\ result.kind = "None"

\* C7: a worker that ends with FatalError or ExplicitBug: no "unexpected
\* panic" diagnostic is emitted, monitor returns None and the controller is
\* free for the next call.
C7_RecognizedFault ==
    (Joined /\ payload \in {"FatalError", "ExplicitBug"}) =>
        /\ emitted = 0
        /\ result = [kind |-> "None"]
        /\ mon = "idle"

C7_Witness == Joined /\ payload = "ExplicitBug" /\ result.kind = "None"

\* C8 (as claimed): whatever the payload, the output captured in the buffer
\* has been printed when monitor returns.
C8_AlwaysFlushed ==
    (Joined /\ payload \in Payloads) => printed = data

\* C8 (amended): with ExplicitBug or an unrecognized payload the captured
\* output has been printed when monitor returns; with FatalError nothing is
\* printed.
C8_FlushedUnlessFatal ==
    /\ (Joined /\ payload \in {"ExplicitBug", "Other"}) => printed = data
    /\ (Joined /\ payload = "FatalError") => printed = <<>>

C8_Witness == Joined /\ payload = "ExplicitBug" /\ data # <<>>

\* C9 (as claimed): when the worker returns a reported failure, the counter
\* is as it was when monitor began and the buffered output is printed.
ReportsFailure == MonitorJoin /\ worker = "returned" /\ ret = "failed"

C9_FailureFlushed ==
    [][ ReportsFailure => counter' = counterAtSpawn /\ printed' = data ]_vars

\* C9 (amended): when the worker returns a reported failure, the counter is
\* as it was when monitor began, monitor hands back the reported value, and
\* the buffered output is dropped: nothing is printed, nothing is emitted.
C9_FailureNotFlushed ==
    [][ ReportsFailure =>
          /\ counter' = counterAtSpawn
          /\ result' = [kind |-> "Some", val |-> "failed"]
          /\ printed' = <<>>
          /\ emitted' = 0 ]_vars

C9_Witness ==
    Joined /\ result = [kind |-> "Some", val |-> "failed"] /\ data # <<>>

\* C10 (as claimed): every handle Library::new has returned is still loaded,
\* on every path of the call.
C10_NeverUnloaded == loaded = 1 .. opened

\* C11: monitor runs are serialized: while the controller is inside monitor
\* exactly one worker thread exists, outside it none does, so two workers
\* never exist and the controller makes no new call before the worker of the
\* previous one has been joined.
C11_Serialized ==
    /\ threads \in {0, 1}
    /\ mon = "joining" <=> threads = 1
    /\ mon = "idle" => worker = "none"
    /\ threads = 1 <=> worker # "none"

C11_Witness == threads = 0 /\ ops = 2 /\ result.kind \in {"Some", "None"} /\ last.outcome # "none"

\* C18: the buffer is written only by the worker while it runs and read by the
\* controller only when the worker has returned or panicked (after join);
\* every access is made with the lock held.
C18_BufferAccess ==
    /\ access.by = "worker" => access.worker = "running" /\ access.locked
    /\ access.by = "controller" =>
          /\ access.worker \in {"returned", "panicked"}
          /\ access.locked
          /\ mon = "idle"
    /\ (worker \in {"spawned", "running"}) => access.by # "controller"

C18_Witness == access.by = "controller" /\ data # <<>> /\ printed = data

\* C19: a monitor run whose worker has ended is joined into exactly one of
\* two outcomes: Some(r), r the value f() returned, exactly when the worker
\* returned; None exactly when the worker panicked.
Completed == result.kind = "Some" /\ ret \in Results /\ result.val = ret /\ payload = "none"
Recovered == result.kind = "None" /\ ret = "none" /\ payload \in Payloads

C19_CompletedOrRecovered ==
    (worker = "none" /\ (ret # "none" \/ payload # "none")) =>
        /\ Completed \/ Recovered
        /\ ~(Completed /\ Recovered)
        /\ mon = "idle"

C19_Witness == worker = "none" /\ Completed /\ ops = 2 /\ data # <<>>

\* C12: the sysroot is settled once, by ExecutionEngine::new: at most one
\* rustc child is run to discover it, none when a sysroot is supplied; the
\* engine's sysroot is the supplied path, or else the discovered one, and every
\* compiler invocation made afterwards, by either strategy, is handed that
\* same path.
ConstructedSysroot ==
    IF probe.how = "supplied" THEN probe.given
    ELSE Concat(trim_right_matches(probe.out))

C12_SysrootSetOnce ==
    /\ discoveries <= 1
    /\ probe.how = "supplied" => discoveries = 0
    /\ engine = "ready" => sysroot = ConstructedSysroot
    /\ last.args # <<>> => last.args[4] = ConstructedSysroot
    /\ tcx.args # <<>> => tcx.args[6] = ConstructedSysroot

\* a discovered sysroot, used by two evaluations and one with_tcx call
C12_Witness ==
    /\ probe.how = "discovered" /\ discoveries = 1 /\ ops = 3
    /\ Len(succ) = 2 /\ tcx.args # <<>> /\ sysroot = "/r"

\* C13 (as stated): without a supplied sysroot an engine is produced only
\* when discovery yielded a valid toolchain root path.
ValidRoot(p) == p # ""

C13_ProducedOnlyForValidRoot ==
    (probe.how = "discovered" /\ engine = "ready") => ValidRoot(sysroot)

\* C13 (amended): without a supplied sysroot, construction fails, leaving no
\* engine and no sysroot, exactly when rustc could not be launched or its
\* output is not valid UTF-8; in every other case an engine is produced, and
\* its sysroot is that output without its trailing line ends, whatever it is
\* (the exit status is not looked at, and the path may be empty).
ValidText(out) == "<FF>" \notin { out[i] : i \in DOMAIN out }

C13_ProducedIffLaunchedAndText ==
    probe.how = "discovered" =>
        /\ engine \in {"ready", "failed"}
        /\ engine = "failed" <=> (~probe.launched \/ ~ValidText(probe.out))
        /\ engine = "failed" =>
              /\ sysroot = "" /\ lib_paths = <<>> /\ counter = 0
              /\ last = NoCall /\ tcx = NoTcx
        /\ engine = "ready" => sysroot = Concat(trim_right_matches(probe.out))

\* rustc ran and printed bytes that are not UTF-8: no engine
C13_Witness ==
    /\ probe.how = "discovered" /\ probe.launched /\ ~ValidText(probe.out)
    /\ engine = "failed"

\* the values that follow the occurrences of `flag` in an argument vector
After(args, flag) ==
    LET idx == SelectSeq([i \in 1..Len(args) |-> i],
                         LAMBDA i : i < Len(args) /\ args[i] = flag)
    IN  [k \in 1..Len(idx) |-> args[idx[k] + 1]]

\* s occurs in t, in order
RECURSIVE IsSubSeq(_, _)
IsSubSeq(s, t) ==
    IF s = <<>> THEN TRUE
    ELSE IF t = <<>> THEN FALSE
    ELSE IF Head(s) = Head(t) THEN IsSubSeq(Tail(s), Tail(t))
    ELSE IsSubSeq(s, Tail(t))

\* C14: every invocation of the rustc child passes the engine's sysroot and
\* every library search path the engine was constructed with, each as a -L
\* argument, in order.
C14_SearchPathsPassed ==
    last.args # <<>> =>
        /\ After(last.args, "--sysroot") = <<sysroot>>
        /\ IsSubSeq(lib_paths, After(last.args, "-L"))

\* C15 (as stated): the two strategies build argument vectors with the same
\* sysroot, the same search paths, the same crate name and the same
\* dependency declarations.
C15_EquivalentArgs ==
    (last.args # <<>> /\ tcx.args # <<>>) =>
        \A flag \in {"--sysroot", "-L", "--crate-name", "--extern"} :
            After(last.args, flag) = After(tcx.args, flag)

\* C15 (amended): the two argument vectors share the sysroot and nothing
\* else: neither names a crate or declares a dependency, only the child
\* process is given a search path (the working directory) and an output
\* path, and the crate types and the input names differ.
C15_SharedSysrootOnly ==
    (last.args # <<>> /\ tcx.args # <<>>) =>
        /\ After(last.args, "--sysroot") = <<sysroot>>
        /\ After(tcx.args, "--sysroot") = <<sysroot>>
        /\ \A flag \in {"--crate-name", "--extern"} :
              After(last.args, flag) = <<>> /\ After(tcx.args, flag) = <<>>
        /\ After(last.args, "-L") = <<".">>
        /\ After(tcx.args, "-L") = <<>>
        /\ After(last.args, "--crate-type") = <<"dylib">>
        /\ After(tcx.args, "--crate-type") = <<"lib">>
        /\ After(last.args, "-o") = <<dylib_file(last.gen)>>
        /\ After(tcx.args, "-o") = <<>>
        /\ last.args[7] = SourceFile
        /\ tcx.args[2] = "dummy_name"

\* both strategies have been used on an engine that has a search path
C15_Witness ==
    /\ last.args # <<>> /\ tcx.args # <<>>
    /\ lib_paths # <<>> /\ last.gen = 1

\* C16: no step deletes or changes the artifact of a recorded generation
\* j < counter; the path an evaluation at counter removes and compiles to
\* differs from the path of every recorded generation.
C16_RecordedArtifactsKept ==
    [][ \A j \in 0..(counter - 1) :
            /\ dylib_file(j) # dylib_file(counter)
            /\ dylib_file(j) \in DOMAIN files
            /\ dylib_file(j) \in DOMAIN files'
            /\ files'[dylib_file(j)] = files[dylib_file(j)] ]_vars

\* two recorded generations, then an evaluation that the compiler rejected
C16_Witness ==
    /\ counter = 2 /\ ops = 3 /\ last.outcome = "false" /\ last.gen = 2
    /\ \A j \in 0..1 : dylib_file(j) \in DOMAIN files /\ files[dylib_file(j)].gen = j

\* C20 (as stated): every with_tcx call runs f exactly once and returns the
\* value f stored in the slot.
C20_RunsOnceAndReturns ==
    tcx.outcome # "none" =>
        /\ tcx.fruns = 1
        /\ tcx.outcome = "returned" /\ tcx.slot = "taken" /\ tcx.value \in TcxValues

\* C20 (amended): with_tcx runs f at most once. It returns the value f stored
\* in the slot exactly when the driver got to the callback and f returned;
\* when the driver ended before the callback (f not run), when f panicked, or
\* when the sysroot is not UTF-8 (f not run), the call panics. In every case
\* no artifact is written, no file changes and the counter, the recorded
\* artifacts and the loaded libraries are as before.
C20_Outcome ==
    tcx.outcome # "none" =>
        /\ tcx.fruns \in {0, 1}
        /\ tcx.outcome \in {"returned", "panic"}
        /\ tcx.outcome = "returned" <=>
              (tcx.fruns = 1 /\ tcx.slot = "taken" /\ tcx.value \in TcxValues)
        /\ tcx.outcome = "panic" =>
              (tcx.slot = "None" /\ tcx.value = "none"
               /\ tcx.step \in {"sysroot", "slot", "f"}
               /\ tcx.fruns = 1 <=> tcx.step = "f")
        /\ TcxOutput \notin DOMAIN files

C20_OnceOrPanicsChainKept ==
    /\ []C20_Outcome
    /\ [][ tcx' # tcx =>
              /\ counter' = counter /\ files' = files
              /\ succ' = succ /\ loaded' = loaded ]_vars

\* with_tcx has returned f's value between two successful evaluations
C20_Witness ==
    /\ tcx.outcome = "returned" /\ tcx.fruns = 1 /\ counter = 2 /\ ops = 3

\* C17: when a translated module is discarded, its three handles (module,
\* context, target machine) are disposed in that one step, each exactly once,
\* the module before its context; the handles of a module that exists are
\* not disposed; a handle that llvm() gives out is live; and a CompiledModule
\* has no field for a module source, so holds no handle.
CompiledFields == { "llmod_id", "name", "kind", "pre_existing", "object",
                    "bytecode", "bytecode_compressed" }

C17_Handles ==
    /\ \A h \in DOMAIN native :
          /\ native[h] = IF h[1] \in DOMAIN modules THEN 0 ELSE 1
          /\ Cardinality({ g \in DOMAIN native : g[1] = h[1] }) = 3
    /\ \A i \in DOMAIN modules :
          modules[i].source.tag = "Translated" =>
              \A h \in {modules[i].source.llvm.llcx, modules[i].source.llvm.llmod,
                         modules[i].source.llvm.tm} :
                  h \in DOMAIN native /\ h[1] = i
    /\ seen.some => seen.live
    /\ \A i \in DOMAIN compiled :
          /\ DOMAIN compiled[i] = CompiledFields
          /\ i \notin DOMAIN modules
    /\ ffi # <<>> =>
          /\ Len(ffi) = 3
          /\ ffi[1][1] = "LLVMDisposeModule" /\ ffi[2][1] = "LLVMContextDispose"
          /\ ffi[3][1] = "LLVMRustDisposeTargetMachine"
          /\ \E i \in 1..created :
                /\ i \notin DOMAIN modules
                /\ <<ffi[1][2], ffi[2][2], ffi[3][2]>> =
                       << <<i, "llmod">>, <<i, "llcx">>, <<i, "tm">> >>

C17_DisposedTogetherOnce ==
    /\ []C17_Handles
    /\ [][ \A h \in DOMAIN native :
              native'[h] # native[h] =>
                  /\ h[1] \in DOMAIN modules /\ h[1] \notin DOMAIN modules'
                  /\ \A g \in DOMAIN native :
                        g[1] = h[1] => native[g] = 0 /\ native'[g] = 1 ]_vars

\* one translated module has been compiled and so discarded, another exists
\* and llvm() has given out its handles
C17_Witness ==
    /\ \E i \in DOMAIN compiled :
          ~compiled[i].pre_existing /\ native[<<i, "tm">>] = 1
    /\ \E j \in DOMAIN modules :
          modules[j].source.tag = "Translated" /\ seen.id = j /\ seen.some

\* C21: join_trans_and_link makes its calls in the order join, (dump,)
\* save_work_products, compile_status, link_binary,
\* finalize_session_directory. Once the translation is joined the work
\* products are saved before the status is looked at, whatever the status
\* and the output types are; the linker is called only when the status is Ok
\* and Exe or Metadata was asked for; the session directory is finalized
\* only after the linker was called and returned; an Err status returns Err
\* with neither call made.
JtlOrder == << "join", "dump_incremental_data", "save_work_products",
               "compile_status", "link_binary", "finalize_session_directory" >>
Called(name) == \E k \in DOMAIN jlog : jlog[k] = name

C21_StepsOrdered ==
    /\ IsSubSeq(jlog, JtlOrder)
    /\ Called("save_work_products") => Called("join")
    /\ Called("compile_status") <=> jstatus # "none"
    /\ Called("compile_status") => Called("save_work_products")
    /\ jpc \in {"Ok", "Err"} => Called("save_work_products") /\ Called("compile_status")
    /\ Called("link_binary") =>
          jstatus = "Ok" /\ jsess.output_types \cap {"Exe", "Metadata"} # {}
    /\ Called("finalize_session_directory") => Called("link_binary")
    /\ jstatus = "Err" =>
          /\ jpc = "Err"
          /\ ~Called("link_binary") /\ ~Called("finalize_session_directory")
    /\ jpc = "Err" => jstatus = "Err"
    /\ jpc = "Ok" =>
          /\ jstatus = "Ok"
          /\ Called("link_binary") <=> jsess.output_types \cap {"Exe", "Metadata"} # {}
          /\ Called("link_binary") => Called("finalize_session_directory")

\* a call with incremental_info set and Metadata asked for, that went
\* through every step and returned Ok
C21_Witness ==
    /\ jpc = "Ok" /\ jlog = JtlOrder /\ jsess.output_types = {"Metadata"}

====
